---- MODULE Spec2Model ----
(***************************************************************************)
(* State-machine model of STranslate.Host's commands (Windows build):      *)
(*   commands/update.rs  handle_update_command, unzip_file_to_parent_dir,  *)
(*                       close_process                                     *)
(*   commands/task.rs    create_task                                       *)
(* The file system is a map from normalised absolute paths (sequences of   *)
(* path segments) to nodes; external commands (taskkill, schtasks) and I/O *)
(* calls have every outcome the operating system can produce.              *)
(***************************************************************************)
EXTENDS Integers, Sequences, FiniteSets, TLC

\* ------------------------------------------------------------------ bounds
\* Longest archive (number of entries) the model enumerates.
MaxEntries == 2
\* Number of I/O calls that may fail for reasons the file-system state does
\* not explain (permissions, sharing violations, disk errors) in one run.
MaxFaults == 1
\* Number of successive calls of unzip_file_to_parent_dir in ExtractSpec.
MaxRuns == 2
\* Largest --wait-time value, in seconds.
MaxWait == 1

\* ------------------------------------------------------------- file system
NoneNode == [kind |-> "none", data |-> "-"]
DirNode == [kind |-> "dir", data |-> "-"]
FileNode(d) == [kind |-> "file", data |-> d]

\* Byte contents of files: "zip" is the bytes of the valid update archive,
\* "empty" a zero-length file, "junk" bytes that are no archive.
Contents == {"empty", "old", "new", "junk", "zip"}

Paths ==
  { <<>>, <<"evil">>, <<"pkg.zip">>, <<"app">>,
    <<"app", "update">>, <<"app", "update", "pkg.zip">>, <<"app", "update", "pkg.txt">>,
    <<"app", "tmp">>, <<"app", "tmp", "pkg.zip">>, <<"app", "tmp", "pkg.txt">>,
    <<"app", "log">>, <<"app", "log", "a.log">>,
    <<"app", "oldstuff">>, <<"app", "oldstuff", "f">>,
    <<"app", "bin">>, <<"app", "bin", "app.exe">>,
    <<"app", "data">>, <<"app", "STranslate.exe">> }

IsPrefix(p, q) == Len(p) <= Len(q) /\ SubSeq(q, 1, Len(p)) = p

\* Path::parent: None for a root, else the path without its last component.
HasParent(p) == Len(p) > 0
Parent(p) == SubSeq(p, 1, Len(p) - 1)

\* Path::file_name
FileName(p) == p[Len(p)]

\* Path::extension of the file names the model uses.
Extension(p) ==
  IF Len(p) = 0 THEN ""
  ELSE CASE FileName(p) = "pkg.zip" -> "zip"
         [] FileName(p) = "pkg.txt" -> "txt"
         [] FileName(p) = "app.exe" -> "exe"
         [] FileName(p) = "STranslate.exe" -> "exe"
         [] FileName(p) = "a.log" -> "log"
         [] OTHER -> ""

\* Path::join of a relative name: the segments are appended as they are.
Join(base, name) == base \o name

\* What the operating system resolves a joined path to: "" and "." segments
\* are dropped, ".." steps to the parent (and stays at a root).
RECURSIVE Norm(_, _)
Norm(acc, s) ==
  IF s = <<>> THEN acc
  ELSE LET h == Head(s) IN
       IF h = "" \/ h = "." THEN Norm(acc, Tail(s))
       ELSE IF h = ".."
            THEN Norm(IF acc = <<>> THEN acc ELSE SubSeq(acc, 1, Len(acc) - 1), Tail(s))
            ELSE Norm(Append(acc, h), Tail(s))

Resolve(p) == Norm(<<>>, p)

\* Path::exists, Path::is_dir
Exists(f, p) == f[Resolve(p)].kind # "none"
IsDir(f, p) == f[Resolve(p)].kind = "dir"

\* fs::read_dir: the immediate children of directory d.
Children(f, d) ==
  { p \in Paths : Len(p) = Len(d) + 1 /\ IsPrefix(d, p) /\ f[p].kind # "none" }

\* fs::remove_dir_all: the directory and everything below it.
RemoveDirAll(f, p) == [q \in Paths |-> IF IsPrefix(p, q) THEN NoneNode ELSE f[q]]

\* fs::remove_file
RemoveFile(f, p) == [q \in Paths |-> IF q = p THEN NoneNode ELSE f[q]]

\* fs::create_dir_all: fails when a component of the path is a file.
CanCreateDirAll(f, p) == \A k \in 0..Len(p) : f[SubSeq(p, 1, k)].kind # "file"
CreateDirAll(f, p) == [q \in Paths |-> IF IsPrefix(q, p) THEN DirNode ELSE f[q]]

\* fs::File::create: needs a parent directory and no directory at the path;
\* the file is created or truncated.
CanCreateFile(f, p) ==
  /\ HasParent(p)
  /\ f[p].kind # "dir"
  /\ f[Parent(p)].kind = "dir"
CreateFile(f, p) == [q \in Paths |-> IF q = p THEN FileNode("empty") ELSE f[q]]

\* io::copy / a write of bytes d into the open file at p.
WriteFile(f, p, d) == [q \in Paths |-> IF q = p THEN FileNode(d) ELSE f[q]]


\* ------------------------------------------------------------ the archive
\* An archive entry: its stored name, split at '/', and its decompressed
\* bytes.  A name that ends with '/' has an empty last segment.
Entry(n, d) == [name |-> n, data |-> d]

\* str::ends_with('/')
EndsWithSlash(n) == Len(n) > 0 /\ n[Len(n)] = ""

\* The name under which an archive below the installation root would store
\* a copy of itself.
SelfName(ap) == SubSeq(ap, Len(ap) - 1, Len(ap))

EntryUniverse(ap) ==
  { Entry(<<"bin", "app.exe">>, "new"),
    Entry(<<"data", "">>, "-"),
    Entry(<<"..", "evil">>, "new"),
    Entry(<<"STranslate.exe">>, "new") }
  \cup (IF Len(ap) = 3 THEN {Entry(SelfName(ap), "empty")} ELSE {})

Archives(ap) == UNION { [1..n -> EntryUniverse(ap)] : n \in 0..MaxEntries }

\* File::open and ZipArchive::new succeed, and an entry can be read, exactly
\* while the file at the archive path still holds the archive's bytes.
ArchiveIntact(f, ap) == f[ap] = FileNode("zip")

\* -------------------------------------------------------- program constants
\* update.rs:98
skip_dirs == {"log", "portable_config", "tmp"}

\* update.rs:59
ExeName == <<"STranslate.exe">>

NoProcess == "<none>"

\* Outcomes of `taskkill /F /IM name`: the process was killed, taskkill ran
\* and reported failure (no such process, access denied), or taskkill could
\* not be started at all.
KillOutcomes == {"killed", "failed_status", "spawn_error"}

\* ------------------------------------------------------------------- state
VARIABLES
  archive_path,   \* --archive
  wait_time,      \* --wait-time
  should_clean,   \* --clean
  process_name,   \* --process-name, or NoProcess
  auto_start,     \* --auto-start
  zip,            \* the entries of the valid archive, in stored order
  fs,             \* the file system
  caller,         \* "update": handle_update_command runs; "extract": unzip_file_to_parent_dir is called directly
  pc,             \* position in the running function
  result,         \* "none" while running, then "ok" or "err"
  err,            \* the stage that produced the error
  todo,           \* children of the installation root the prune loop has yet to visit
  idx,            \* index of the archive entry processed next (from 1)
  runs,           \* number of calls started
  faults,         \* injected I/O failures so far
  fs0,            \* history: the file system when the current call started
  prevFs,         \* history: the file system when the previous call returned
  prevResult,     \* history: the result of the previous call
  killRequested,  \* history: close_process was called
  killOutcome,    \* history: what taskkill did
  sleepCalls,     \* history: number of thread::sleep calls
  pruned,         \* history: children of the installation root the prune deleted
  pruneFaults,    \* history: read_dir failed or skipped an entry
  failedAt,       \* history: index of the entry whose processing failed, 0 if none
  extracted,      \* history: unzip_file_to_parent_dir returned Ok in this call
  spawned,        \* history: number of processes started by the relaunch
  spawnCalls,     \* history: number of Command::spawn calls the relaunch made
  openCalls       \* history: number of File::open calls on the archive in this call

uvars ==
  <<archive_path, wait_time, should_clean, process_name, auto_start, zip, fs,
    caller, pc, result, err, todo, idx, runs, faults, fs0, prevFs, prevResult,
    killRequested, killOutcome, sleepCalls, pruned, pruneFaults,
    failedAt, extracted, spawned, spawnCalls, openCalls>>

request == <<archive_path, wait_time, should_clean, process_name, auto_start, zip, caller>>

\* State of the `host task` command: the scheduler's registry, the working
\* directory's temporary descriptor files, and the create_task invocations.
VARIABLES
  registry,       \* task name -> <<>> or <<descriptor>>: the registrations the scheduler holds
  tmp,            \* task name -> <<>> or <<xml>>: the file temp_task_{name}.xml
  clock,          \* Local::now()
  tpc,            \* invocation -> position in create_task
  targs,          \* invocation -> its arguments
  txml,           \* invocation -> the descriptor it generated, <<>> before
  tstatus,        \* invocation -> exit status of its `schtasks /Create`
  tres,           \* invocation -> "none" while running, then "ok" or "err"
  sawExisting,    \* history: the invocation's query reported a registration
  wroteTemp,      \* history: the invocation wrote its temporary file
  registerCalls,  \* history: number of `schtasks /Create` calls the invocation issued
  queryCalls,     \* history: number of `schtasks /Query` calls the invocation issued
  regAtStart,     \* history: the registry when the invocation started
  regAtEnd,       \* history: the registry when the invocation returned
  solo,           \* history: no other invocation took a step while this one ran
  regBy           \* history: task name -> the invocation whose register call made the registration, 0 if none

tvars ==
  <<registry, tmp, clock, tpc, targs, txml, tstatus, tres, sawExisting,
    wroteTemp, registerCalls, queryCalls, regAtStart, regAtEnd, solo, regBy>>

\* delete_task (task.rs:165-190), one invocation at a time.
VARIABLES
  dpc,            \* position in delete_task: "idle", "query", "delete", "done"
  dname,          \* task_name
  dquery,         \* exit of `schtasks /Query`, "none" before
  dstatus,        \* exit of `schtasks /Delete`, "none" before
  dres,           \* "none" while running, then "ok" or "err"
  deleteCalls,    \* history: number of `schtasks /Delete` calls of this invocation
  dreg0,          \* history: the registry when the invocation started
  druns           \* number of invocations started

dvars == <<dpc, dname, dquery, dstatus, dres, deleteCalls, dreg0, druns>>

\* handle_start_command (start.rs:17-60).
VARIABLES
  spc,            \* position: "idle", "delay", "launch", "done"
  smode,          \* --mode: "direct", "elevated", "task"
  starget,        \* --target
  sargs,          \* --args, a sequence
  sdelay,         \* --delay
  ssleeps,        \* history: number of thread::sleep calls
  scmd,           \* history: the command line that was issued, <<>> before
  slaunch,        \* what the issued command did, "none" before
  sres            \* "none" while running, then "ok" or "err"

svars == <<spc, smode, starget, sargs, sdelay, ssleeps, scmd, slaunch, sres>>

\* The state of the commands other than update and task create.
ovars == <<dvars, svars>>

\* The installation root: the archive's grandparent (update.rs:54-57, 87).
HasGrandParent(p) == HasParent(p) /\ HasParent(Parent(p))
GrandParent(p) == Parent(Parent(p))

CanFault == faults < MaxFaults


\* ----------------------------------------------------------- initial states
ArchivePaths ==
  { <<"app", "update", "pkg.zip">>, <<"app", "update", "pkg.txt">>,
    <<"app", "tmp", "pkg.zip">>, <<"app", "tmp", "pkg.txt">>, <<"pkg.zip">> }

\* What lies at the archive path: the valid archive, a file that is no
\* archive, a directory, or nothing.
ArchiveNodes == {FileNode("zip"), FileNode("junk"), DirNode, NoneNode}

Layouts == {"bare", "populated"}

\* An installation: the root with its whitelisted log directory and the
\* staging directory; a populated one also holds a non-whitelisted directory
\* with a file in it, the installed executable, and a stray file named bin.
InitFs(ap, node, layout) ==
  [p \in Paths |->
     IF p = ap THEN node
     ELSE IF p \in {<<>>, <<"app">>, <<"app", "log">>} THEN DirNode
     ELSE IF p = <<"app", "log", "a.log">> THEN FileNode("old")
     ELSE IF Len(ap) = 3 /\ p = Parent(ap) THEN DirNode
     ELSE IF layout = "populated" /\ p = <<"app", "oldstuff">> THEN DirNode
     ELSE IF layout = "populated" /\ p \in {<<"app", "oldstuff", "f">>, <<"app", "STranslate.exe">>, <<"app", "bin">>}
          THEN FileNode("old")
     ELSE NoneNode]

InitHistory ==
  /\ result = "none"
  /\ err = ""
  /\ todo = {}
  /\ idx = 1
  /\ runs = 1
  /\ faults = 0
  /\ fs0 = fs
  /\ prevFs = fs
  /\ prevResult = "none"
  /\ killRequested = FALSE
  /\ killOutcome = "none"
  /\ sleepCalls = 0
  /\ pruned = {}
  /\ pruneFaults = FALSE
  /\ failedAt = 0
  /\ extracted = FALSE
  /\ spawned = 0
  /\ spawnCalls = 0
  /\ openCalls = 0

InitCommon(c) ==
  /\ caller = c
  /\ archive_path \in ArchivePaths
  /\ \E node \in ArchiveNodes, layout \in Layouts :
       /\ fs = InitFs(archive_path, node, layout)
       /\ zip \in (IF node = FileNode("zip") /\ Extension(archive_path) = "zip"
                   THEN Archives(archive_path) ELSE {<<>>})
  /\ should_clean \in BOOLEAN
  /\ InitHistory

\* `host update --archive .. [--wait-time n] [--clean] [--process-name p] [--auto-start]`
UInit ==
  /\ InitCommon("update")
  /\ pc = "validate"
  /\ wait_time \in 0..MaxWait
  /\ process_name \in {NoProcess, "STranslate"}
  /\ auto_start \in BOOLEAN

\* unzip_file_to_parent_dir(zip_path, clear_dir) called on its own.
EInit ==
  /\ InitCommon("extract")
  /\ pc = "unzip"
  /\ wait_time = 0
  /\ process_name = NoProcess
  /\ auto_start = FALSE

\* No update is under way: the state of the update command while the task
\* command runs.
UIdle ==
  /\ archive_path = <<"pkg.zip">>
  /\ fs = InitFs(archive_path, NoneNode, "bare")
  /\ zip = <<>>
  /\ should_clean = FALSE
  /\ caller = "none"
  /\ pc = "done"
  /\ wait_time = 0
  /\ process_name = NoProcess
  /\ auto_start = FALSE
  /\ InitHistory

\* ------------------------------------------------- returning from a function
\* Mutant of Fail: the `?` at update.rs:47 is missing, so an extraction that
\* failed at an entry is followed by the relaunch stage.
FailIgnoredByCaller(stage) ==
  /\ pc' = IF stage = "entry" /\ caller = "update" THEN "relaunch" ELSE "done"
  /\ result' = "err"
  /\ err' = stage

\* `return Err(..)` and `?`: the error leaves unzip_file_to_parent_dir and,
\* through the `?` at update.rs:47, handle_update_command.
Fail(stage) ==
  /\ pc' = "done"
  /\ result' = "err"
  /\ err' = stage

\* `Ok(())` at update.rs:138: extraction is complete; handle_update_command
\* goes on to the relaunch stage.
UnzipOk ==
  /\ extracted' = TRUE
  /\ err' = err
  /\ IF caller = "update"
       THEN pc' = "relaunch" /\ result' = result
       ELSE pc' = "done" /\ result' = "ok"


\* ------------------------------------------------ handle_update_command
\* Mutant of ArchiveExists: the existence check is missing.
ArchiveExistsAlways(f, p) == TRUE

\* update.rs:29: Path::new(archive_path).exists()
ArchiveExists(f, p) == Exists(f, p)

\* update.rs:29-31
Validate ==
  /\ pc = "validate"
  /\ IF ArchiveExists(fs, archive_path)
       THEN pc' = "stop" /\ UNCHANGED <<result, err>>
       ELSE Fail("validate")
  /\ UNCHANGED <<tvars, ovars, request, fs, todo, idx, runs, faults, fs0, prevFs, prevResult,
                 killRequested, killOutcome, sleepCalls, pruned, pruneFaults,
                 failedAt, extracted, spawned, spawnCalls, openCalls>>

\* close_process, update.rs:148-162: `.output()?` returns the error when
\* taskkill cannot be started; a failure status is only printed.
CloseProcessResult(o) == IF o = "spawn_error" THEN "err" ELSE "ok"

\* update.rs:33-38
StopProcess ==
  /\ pc = "stop"
  /\ IF process_name = NoProcess
       THEN /\ pc' = "wait"
            /\ UNCHANGED <<result, err, killRequested, killOutcome>>
       ELSE \E o \in KillOutcomes :
              /\ killRequested' = TRUE
              /\ killOutcome' = o
              /\ IF CloseProcessResult(o) = "ok"
                   THEN pc' = "wait" /\ UNCHANGED <<result, err>>
                   ELSE Fail("stop")
  /\ UNCHANGED <<tvars, ovars, request, fs, todo, idx, runs, faults, fs0, prevFs, prevResult,
                 sleepCalls, pruned, pruneFaults, failedAt, extracted, spawned, spawnCalls, openCalls>>

\* Mutant of ShouldSleep: the sleep is made whatever the wait time.
ShouldSleepAlways(w) == TRUE

\* update.rs:40: the sleep is made only for a positive wait time.
ShouldSleep(w) == w > 0

\* update.rs:40-45
Wait ==
  /\ pc = "wait"
  /\ sleepCalls' = IF ShouldSleep(wait_time) THEN sleepCalls + 1 ELSE sleepCalls
  /\ pc' = "unzip"
  /\ UNCHANGED <<tvars, ovars, request, fs, result, err, todo, idx, runs, faults, fs0, prevFs,
                 prevResult, killRequested, killOutcome, pruned, pruneFaults,
                 failedAt, extracted, spawned, spawnCalls, openCalls>>

\* ---------------------------------------------- unzip_file_to_parent_dir
\* Mutant of UnzipPrecheck: the extension is not looked at.
UnzipPrecheckNoExtension(f, p) ==
  IF ~Exists(f, p) THEN "invalid_input"
  ELSE IF ~HasGrandParent(p) THEN "no_grandparent"
  ELSE "ok"

\* update.rs:80-95: the checks made before anything is touched.
UnzipPrecheck(f, p) ==
  IF ~Exists(f, p) \/ Extension(p) # "zip" THEN "invalid_input"
  ELSE IF ~HasGrandParent(p) THEN "no_grandparent"
  ELSE "ok"

\* update.rs:97: prune only when clear_dir is set.
NextAfterPrecheck(clear_dir) == IF clear_dir THEN "prune_enum" ELSE "open"

\* update.rs:78-97
UnzipCheck ==
  /\ pc = "unzip"
  /\ LET r == UnzipPrecheck(fs, archive_path) IN
       IF r = "ok"
         THEN pc' = NextAfterPrecheck(should_clean) /\ UNCHANGED <<result, err>>
         ELSE Fail(r)
  /\ UNCHANGED <<tvars, ovars, request, fs, todo, idx, runs, faults, fs0, prevFs, prevResult,
                 killRequested, killOutcome, sleepCalls, pruned, pruneFaults,
                 failedAt, extracted, spawned, spawnCalls, openCalls>>

\* update.rs:100-101: what the loop gets to see.  Without a fault, every
\* child; `if let Ok(..)` turns a failed read_dir into no children at all and
\* `.flatten()` drops a child whose directory entry could not be read.
Enumerations(f, root) ==
  { [seen |-> Children(f, root), fault |-> FALSE], [seen |-> {}, fault |-> TRUE] }
  \cup { [seen |-> Children(f, root) \ {c}, fault |-> TRUE] : c \in Children(f, root) }

\* update.rs:100
PruneEnum ==
  /\ pc = "prune_enum"
  /\ \E e \in Enumerations(fs, GrandParent(archive_path)) :
       /\ e.fault => CanFault
       /\ todo' = e.seen
       /\ faults' = IF e.fault THEN faults + 1 ELSE faults
       /\ pruneFaults' = (pruneFaults \/ e.fault)
       /\ pc' = IF e.seen = {} THEN "open" ELSE "prune_loop"
  /\ UNCHANGED <<tvars, ovars, request, fs, result, err, idx, runs, fs0, prevFs, prevResult,
                 killRequested, killOutcome, sleepCalls, pruned, failedAt,
                 extracted, spawned, spawnCalls, openCalls>>

\* Mutant of IsSkipped: tmp is missing from the preserved names.
IsSkippedWithoutTmp(c) == FileName(c) \in {"log", "portable_config"}

\* update.rs:105: skip_dirs.contains(&name)
IsSkipped(c) == FileName(c) \in skip_dirs

\* update.rs:109-113: a successful removal of child c.
RemoveChild(f, c) == IF IsDir(f, c) THEN RemoveDirAll(f, c) ELSE RemoveFile(f, c)

\* What a failed removal of child c can leave behind: c itself stays; of a
\* directory, the contents may already be gone.
FailedRemovals(f, c) ==
  { f, [q \in Paths |-> IF IsPrefix(c, q) /\ q # c THEN NoneNode ELSE f[q]] }

\* Mutant of PruneStep: the result of the removal is discarded (`let _ =`),
\* so the loop goes on after a failed removal.
PruneStepIgnoringFailure ==
  /\ pc = "prune_loop"
  /\ \E c \in todo :
       /\ todo' = todo \ {c}
       /\ pc' = IF todo' = {} THEN "open" ELSE "prune_loop"
       /\ IF IsSkipped(c)
            THEN UNCHANGED <<fs, faults, pruned>>
            ELSE \E ok \in BOOLEAN :
                   IF ok
                     THEN /\ fs' = RemoveChild(fs, c)
                          /\ pruned' = pruned \cup {c}
                          /\ UNCHANGED faults
                     ELSE /\ CanFault
                          /\ faults' = faults + 1
                          /\ fs' \in FailedRemovals(fs, c)
                          /\ UNCHANGED pruned
  /\ UNCHANGED <<tvars, ovars, request, result, err, idx, runs, fs0, prevFs, prevResult,
                 killRequested, killOutcome, sleepCalls, pruneFaults, failedAt,
                 extracted, spawned, spawnCalls, openCalls>>

\* update.rs:101-114: one iteration of the prune loop; read_dir gives the
\* children in no particular order.
PruneStep ==
  /\ pc = "prune_loop"
  /\ \E c \in todo :
       /\ todo' = todo \ {c}
       /\ IF IsSkipped(c)
            THEN /\ pc' = IF todo' = {} THEN "open" ELSE "prune_loop"
                 /\ UNCHANGED <<fs, result, err, faults, pruned>>
            ELSE \E ok \in BOOLEAN :
                   IF ok
                     THEN /\ fs' = RemoveChild(fs, c)
                          /\ pruned' = pruned \cup {c}
                          /\ pc' = IF todo' = {} THEN "open" ELSE "prune_loop"
                          /\ UNCHANGED <<result, err, faults>>
                     ELSE /\ CanFault
                          /\ faults' = faults + 1
                          /\ fs' \in FailedRemovals(fs, c)
                          /\ Fail("prune")
                          /\ UNCHANGED pruned
  /\ UNCHANGED <<tvars, ovars, request, idx, runs, fs0, prevFs, prevResult, killRequested,
                 killOutcome, sleepCalls, pruneFaults, failedAt, extracted, spawned, spawnCalls, openCalls>>

\* update.rs:118-119: File::open and ZipArchive::new.
OpenOutcomes(f, ap) ==
  IF ArchiveIntact(f, ap)
    THEN {[ok |-> TRUE, fault |-> FALSE], [ok |-> FALSE, fault |-> TRUE]}
    ELSE {[ok |-> FALSE, fault |-> FALSE]}

\* update.rs:118-121
OpenArchive ==
  /\ pc = "open"
  /\ \E o \in OpenOutcomes(fs, archive_path) :
       /\ o.fault => CanFault
       /\ faults' = IF o.fault THEN faults + 1 ELSE faults
       /\ IF o.ok
            THEN IF Len(zip) = 0
                   THEN UnzipOk
                   ELSE pc' = "extract" /\ UNCHANGED <<result, err, extracted>>
            ELSE Fail("open") /\ UNCHANGED extracted
  /\ idx' = 1
  /\ openCalls' = openCalls + 1
  /\ UNCHANGED <<tvars, ovars, request, fs, todo, runs, fs0, prevFs, prevResult, killRequested,
                 killOutcome, sleepCalls, pruned, pruneFaults, failedAt, spawned,
                 spawnCalls>>

\* update.rs:122-135: everything processing entry e can do to the file
\* system f.  `fault` marks an outcome that needs an I/O call to fail for a
\* reason outside the modelled state.
EntryOutcomes(f, ap, e) ==
  LET outpath == Join(GrandParent(ap), e.name)
      target == Resolve(outpath)
      bad(g, flt) == [ok |-> FALSE, fs |-> g, fault |-> flt]
      good(g) == [ok |-> TRUE, fs |-> g, fault |-> FALSE]
  IN
  IF ~ArchiveIntact(f, ap) THEN {bad(f, FALSE)}                  \* by_index(i)?
  ELSE {bad(f, TRUE)} \cup
    IF EndsWithSlash(e.name)
      THEN IF CanCreateDirAll(f, target)                           \* line 126
             THEN {good(CreateDirAll(f, target))}
             ELSE {bad(f, FALSE)}
      ELSE LET p == Parent(outpath)
               mk == ~Exists(f, p)                                 \* line 129
               f1 == IF mk /\ CanCreateDirAll(f, Resolve(p))
                       THEN CreateDirAll(f, Resolve(p)) ELSE f     \* line 130
           IN
           IF mk /\ ~CanCreateDirAll(f, Resolve(p)) THEN {bad(f, FALSE)}
           ELSE IF ~CanCreateFile(f1, target) THEN {bad(f1, FALSE)}   \* line 133
           ELSE LET f2 == CreateFile(f1, target) IN
                {bad(f1, TRUE), bad(f2, TRUE),
                 bad(WriteFile(f2, target, "junk"), TRUE)} \cup
                (IF ArchiveIntact(f2, ap)                          \* line 134
                   THEN {good(WriteFile(f2, target, e.data))}
                   ELSE IF e.data = "empty" THEN {good(f2)} ELSE {bad(f2, FALSE)})

\* update.rs:121-136: one iteration of the extraction loop.
ExtractEntry ==
  /\ pc = "extract"
  /\ idx <= Len(zip)
  /\ \E o \in EntryOutcomes(fs, archive_path, zip[idx]) :
       /\ o.fault => CanFault
       /\ faults' = IF o.fault THEN faults + 1 ELSE faults
       /\ fs' = o.fs
       /\ IF o.ok
            THEN /\ idx' = idx + 1
                 /\ failedAt' = failedAt
                 /\ IF idx + 1 > Len(zip)
                      THEN UnzipOk
                      ELSE pc' = "extract" /\ UNCHANGED <<result, err, extracted>>
            ELSE /\ Fail("entry")
                 /\ failedAt' = idx
                 /\ UNCHANGED <<idx, extracted>>
  /\ UNCHANGED <<tvars, ovars, request, todo, runs, fs0, prevFs, prevResult, killRequested,
                 killOutcome, sleepCalls, pruned, pruneFaults, spawned, spawnCalls, openCalls>>

\* Mutant of RelaunchOutcomes: a missing executable is an error.
RelaunchOutcomesMissingIsError(f, ap, auto) ==
  IF ~auto THEN {[r |-> "skip", fault |-> FALSE]}
  ELSE IF ~HasGrandParent(ap) THEN {[r |-> "err", fault |-> FALSE]}
  ELSE IF Exists(f, Join(GrandParent(ap), ExeName))
         THEN {[r |-> "spawned", fault |-> FALSE], [r |-> "err", fault |-> TRUE]}
         ELSE {[r |-> "err", fault |-> FALSE]}

\* update.rs:53-70: what the relaunch stage does: "skip" (no auto start, or
\* no executable), "spawned", or "err" (no program directory, or the spawn
\* failed).  `fault` as above.
RelaunchOutcomes(f, ap, auto) ==
  IF ~auto THEN {[r |-> "skip", fault |-> FALSE]}
  ELSE IF ~HasGrandParent(ap) THEN {[r |-> "err", fault |-> FALSE]}
  ELSE IF Exists(f, Join(GrandParent(ap), ExeName))
         THEN {[r |-> "spawned", fault |-> FALSE], [r |-> "err", fault |-> TRUE]}
         ELSE {[r |-> "skip", fault |-> FALSE]}

\* update.rs:53-73
Relaunch ==
  /\ pc = "relaunch"
  /\ \E o \in RelaunchOutcomes(fs, archive_path, auto_start) :
       /\ o.fault => CanFault
       /\ faults' = IF o.fault THEN faults + 1 ELSE faults
       /\ spawned' = IF o.r = "spawned" THEN spawned + 1 ELSE spawned
       /\ spawnCalls' = IF o.r = "spawned" \/ o.fault THEN spawnCalls + 1 ELSE spawnCalls
       /\ IF o.r = "err"
            THEN Fail("relaunch")
            ELSE pc' = "done" /\ result' = "ok" /\ err' = err
  /\ UNCHANGED <<tvars, ovars, request, fs, todo, idx, runs, fs0, prevFs, prevResult,
                 killRequested, killOutcome, sleepCalls, pruned, pruneFaults,
                 failedAt, extracted, openCalls>>

\* unzip_file_to_parent_dir is called again with the same arguments.
ExtractAgain ==
  /\ pc = "done"
  /\ caller = "extract"
  /\ runs < MaxRuns
  /\ runs' = runs + 1
  /\ pc' = "unzip"
  /\ prevFs' = fs
  /\ prevResult' = result
  /\ fs0' = fs
  /\ result' = "none"
  /\ err' = ""
  /\ todo' = {}
  /\ idx' = 1
  /\ pruned' = {}
  /\ failedAt' = 0
  /\ extracted' = FALSE
  /\ openCalls' = 0
  /\ UNCHANGED <<tvars, ovars, request, fs, faults, killRequested, killOutcome, sleepCalls,
                 pruneFaults, spawned, spawnCalls>>


\* ------------------------------------------------------------ create_task
\* Largest number of create_task invocations, which may overlap.
MaxCalls == 2

Procs == 1..MaxCalls
TaskNames == {"T1", "T2"}

\* What exists on disk of the program paths the command is given.
Disk == {<<>>, <<"x">>, <<"x", "a.exe">>}

\* An Option: <<>> is None, <<v>> is Some(v).
None == <<>>
Some(v) == <<v>>

DefaultDescription == "STranslate"

\* get_current_user_sid (task.rs:281-295) gives the user's SID or fails, and
\* generate_task_xml then falls back to the administrators group.
UserSids == {"S-1-5-21-user", "S-1-5-32-544"}

\* The argument lists the model calls create_task with: every task name and
\* force flag with an existing and a missing program, and for T1 also a given
\* working directory with the highest run level and a program path that has
\* no parent directory.
CreateArgs ==
  [task_name : TaskNames, program : {<<"x", "a.exe">>, <<"x", "gone.exe">>},
   working_dir : {None}, run_level : {"limited"}, force : BOOLEAN]
  \cup [task_name : {"T1"}, program : {<<"x", "a.exe">>}, working_dir : {Some(<<"w">>)},
        run_level : {"highest"}, force : BOOLEAN]
  \cup [task_name : {"T1"}, program : {<<>>}, working_dir : {None, Some(<<"w">>)},
        run_level : {"limited"}, force : {TRUE}]

NoArgs ==
  [task_name |-> "T1", program |-> <<>>, working_dir |-> None,
   run_level |-> "limited", force |-> FALSE]

\* task.rs:215-278: the fields the descriptor is built from.
generate_task_xml(task_name, program, working_dir, description, run_level, now, sid) ==
  [Date |-> now,
   Description |-> description,
   URI |-> task_name,
   UserId |-> sid,
   RunLevel |-> IF run_level = "highest" THEN "HighestAvailable" ELSE "LeastPrivilege",
   Command |-> program,
   WorkingDirectory |-> working_dir]

\* task.rs:132: format!("temp_task_{}.xml", task_name), relative to the
\* working directory of the process; the file is identified by the task name.
temp_xml_path(task_name) == task_name

\* Mutant of ProgramExists: the check of the program path is missing.
ProgramExistsAlways(program) == TRUE

\* task.rs:107: Path::new(program).exists()
ProgramExists(program) == program \in Disk

\* task.rs:111-119: the working directory, or None when it cannot be derived.
WorkDir(a) ==
  IF a.working_dir # None THEN a.working_dir
  ELSE IF HasParent(a.program) THEN Some(Parent(a.program))
  ELSE None

\* Outcomes of `schtasks /Query /TN name`: it cannot be started, it reports
\* success (only for a registered name), or it reports failure (no such
\* task, or the query itself was refused).
QueryOutcomes(reg, name) ==
  {"spawn_error", "failure"} \cup (IF reg[name] # <<>> THEN {"success"} ELSE {})

\* Mutant of ReturnsEarly: the negation of force is missing.
ReturnsEarlyWhenForced(success, force) == success /\ force

\* task.rs:125: check_output.status.success() && !force
ReturnsEarly(success, force) == success /\ ~force

Set(f, p, v) == [q \in DOMAIN f |-> IF q = p THEN v ELSE f[q]]

\* A registration that was in the scheduler before any invocation.
ForeignTask ==
  generate_task_xml("T1", <<"x", "a.exe">>, Some(<<"x">>), "other", "limited", 0, "S-1-5-32-544")

\* No invocation has started; the scheduler's registry is reg.
TaskIdle(reg) ==
  /\ registry = reg
  /\ tmp = [n \in TaskNames |-> <<>>]
  /\ clock = 1
  /\ tpc = [p \in Procs |-> "idle"]
  /\ targs = [p \in Procs |-> NoArgs]
  /\ txml = [p \in Procs |-> <<>>]
  /\ tstatus = [p \in Procs |-> "none"]
  /\ tres = [p \in Procs |-> "none"]
  /\ sawExisting = [p \in Procs |-> FALSE]
  /\ wroteTemp = [p \in Procs |-> FALSE]
  /\ registerCalls = [p \in Procs |-> 0]
  /\ queryCalls = [p \in Procs |-> 0]
  /\ regAtStart = [p \in Procs |-> registry]
  /\ regAtEnd = [p \in Procs |-> registry]
  /\ solo = [p \in Procs |-> TRUE]
  /\ regBy = [n \in TaskNames |-> 0]

EmptyRegistry == [n \in TaskNames |-> <<>>]

\* The scheduler holds no task, or one that something else registered.
TInit ==
  \E reg \in {EmptyRegistry, Set(EmptyRegistry, "T1", <<ForeignTask>>)} : TaskIdle(reg)

Active(p) == tpc[p] \notin {"idle", "done"}

\* History: a step of invocation p ends the solo run of every other
\* invocation that is under way.
StepOf(p) ==
  solo' = [q \in Procs |-> IF q # p /\ Active(q) THEN FALSE ELSE solo[q]]

\* `return Err(..)`, `?` and `Ok(())` of create_task.
Return(p, r) ==
  /\ tpc' = Set(tpc, p, "done")
  /\ tres' = Set(tres, p, r)

\* History: the registry an invocation leaves behind when it returns.
NoteEnd(p) ==
  regAtEnd' = IF tpc'[p] = "done" THEN Set(regAtEnd, p, registry') ELSE regAtEnd

\* task.rs:89-119: the call, its validation and the working directory.
CreateStart(p) ==
  /\ tpc[p] = "idle"
  /\ \E a \in CreateArgs :
       /\ targs' = Set(targs, p, a)
       /\ IF ~ProgramExists(a.program) \/ WorkDir(a) = None
            THEN Return(p, "err")
            ELSE tpc' = Set(tpc, p, "query") /\ tres' = tres
  /\ regAtStart' = Set(regAtStart, p, registry)
  /\ StepOf(p)
  /\ UNCHANGED <<uvars, ovars, registry, tmp, clock, txml, tstatus, sawExisting,
                 wroteTemp, registerCalls, queryCalls, regBy>>
  /\ NoteEnd(p)

\* task.rs:121-128: the query and the early return.
CreateQuery(p) ==
  /\ tpc[p] = "query"
  /\ \E o \in QueryOutcomes(registry, targs[p].task_name) :
       /\ sawExisting' = Set(sawExisting, p, o = "success")
       /\ queryCalls' = Set(queryCalls, p, queryCalls[p] + 1)
       /\ IF o = "spawn_error" THEN Return(p, "err")
          ELSE IF ReturnsEarly(o = "success", targs[p].force) THEN Return(p, "ok")
          ELSE tpc' = Set(tpc, p, "write") /\ tres' = tres
  /\ StepOf(p)
  /\ UNCHANGED <<uvars, ovars, registry, tmp, clock, targs, txml, tstatus, wroteTemp,
                 registerCalls, regAtStart, regBy>>
  /\ NoteEnd(p)

\* task.rs:130-133: the descriptor is generated and written; fs::write may
\* fail.
CreateWrite(p) ==
  /\ tpc[p] = "write"
  /\ \E sid \in UserSids, ok \in BOOLEAN :
       LET a == targs[p]
           xml == generate_task_xml(a.task_name, a.program, WorkDir(a),
                                    DefaultDescription, a.run_level, clock, sid)
       IN IF ok
            THEN /\ tmp' = Set(tmp, temp_xml_path(a.task_name), Some(xml))
                 /\ txml' = Set(txml, p, Some(xml))
                 /\ wroteTemp' = Set(wroteTemp, p, TRUE)
                 /\ tpc' = Set(tpc, p, "register")
                 /\ tres' = tres
            ELSE /\ Return(p, "err")
                 /\ UNCHANGED <<tmp, txml, wroteTemp>>
  /\ clock' = clock + 1
  /\ StepOf(p)
  /\ UNCHANGED <<uvars, ovars, registry, targs, tstatus, sawExisting, registerCalls, queryCalls,
                 regAtStart, regBy>>
  /\ NoteEnd(p)

\* Outcomes of `schtasks /Create /XML file /TN name /F`: it cannot be
\* started, it registers what the file holds (overwriting), or it reports
\* failure; without the file it can only fail.
RegisterOutcomes(files, path) ==
  {"spawn_error", "failure"} \cup (IF files[path] # <<>> THEN {"success"} ELSE {})

\* task.rs:139-143
CreateRegister(p) ==
  /\ tpc[p] = "register"
  /\ LET name == targs[p].task_name
         path == temp_xml_path(name)
     IN \E o \in RegisterOutcomes(tmp, path) :
          /\ registerCalls' = Set(registerCalls, p, registerCalls[p] + 1)
          /\ tstatus' = Set(tstatus, p, o)
          /\ IF o = "success"
               THEN /\ registry' = Set(registry, name, tmp[path])
                    /\ regBy' = Set(regBy, name, p)
               ELSE UNCHANGED <<registry, regBy>>
          /\ IF o = "spawn_error"
               THEN Return(p, "err")
               ELSE tpc' = Set(tpc, p, "remove") /\ tres' = tres
  /\ StepOf(p)
  /\ UNCHANGED <<uvars, ovars, tmp, clock, targs, txml, sawExisting, wroteTemp, queryCalls,
                 regAtStart>>
  /\ NoteEnd(p)

\* task.rs:145-161: `let _ = fs::remove_file(..)` removes the file or fails
\* unnoticed; the result is that of the register call.
CreateRemove(p) ==
  /\ tpc[p] = "remove"
  /\ \E removed \in BOOLEAN :
       tmp' = IF removed THEN Set(tmp, temp_xml_path(targs[p].task_name), <<>>) ELSE tmp
  /\ Return(p, IF tstatus[p] = "success" THEN "ok" ELSE "err")
  /\ StepOf(p)
  /\ UNCHANGED <<uvars, ovars, registry, clock, targs, txml, tstatus, sawExisting,
                 wroteTemp, registerCalls, queryCalls, regAtStart, regBy>>
  /\ NoteEnd(p)

TNext ==
  \E p \in Procs :
    \/ CreateStart(p)
    \/ CreateQuery(p)
    \/ CreateWrite(p)
    \/ CreateRegister(p)
    \/ CreateRemove(p)

\* ------------------------------------------------------------ delete_task
\* Number of delete_task invocations made one after the other.
MaxDeletes == 3

\* What create_task keeps for itself: everything of the task command but the
\* scheduler's registry.
createLocal ==
  <<tmp, clock, tpc, targs, txml, tstatus, tres, sawExisting, wroteTemp,
    registerCalls, queryCalls, regAtStart, regAtEnd, solo, regBy>>

\* No delete_task invocation has started.
DeleteIdle ==
  /\ dpc = "idle"
  /\ dname = "T1"
  /\ dquery = "none"
  /\ dstatus = "none"
  /\ dres = "none"
  /\ deleteCalls = 0
  /\ dreg0 = EmptyRegistry
  /\ druns = 0

\* Another registration that was in the scheduler before any invocation.
ForeignTask2 ==
  generate_task_xml("T2", <<"x", "a.exe">>, Some(<<"x">>), "other", "highest", 0, "S-1-5-32-544")

\* The registries delete_task is run against.
DeleteRegistries ==
  { EmptyRegistry,
    Set(EmptyRegistry, "T1", <<ForeignTask>>),
    Set(Set(EmptyRegistry, "T1", <<ForeignTask>>), "T2", <<ForeignTask2>>) }

\* task.rs:165: the call.
DeleteStart ==
  /\ dpc \in {"idle", "done"}
  /\ druns < MaxDeletes
  /\ druns' = druns + 1
  /\ dname' \in TaskNames
  /\ dpc' = "query"
  /\ dquery' = "none"
  /\ dstatus' = "none"
  /\ dres' = "none"
  /\ deleteCalls' = 0
  /\ dreg0' = registry
  /\ UNCHANGED <<uvars, tvars, svars>>

\* Mutant of TakenAsAbsent: the existence check is missing, the delete is
\* always issued.
TakenAsAbsentNever(o) == FALSE

\* task.rs:174: any exit of the query but success is taken as "no such task".
TakenAsAbsent(o) == o # "success"

\* task.rs:170-177: the query and the early return.
DeleteQuery ==
  /\ dpc = "query"
  /\ \E o \in QueryOutcomes(registry, dname) :
       /\ dquery' = o
       /\ IF o = "spawn_error" THEN dpc' = "done" /\ dres' = "err"
          ELSE IF TakenAsAbsent(o) THEN dpc' = "done" /\ dres' = "ok"
          ELSE dpc' = "delete" /\ dres' = dres
  /\ UNCHANGED <<uvars, tvars, svars, dname, dstatus, deleteCalls, dreg0, druns>>

\* Outcomes of `schtasks /Delete /TN name /F`: it cannot be started, it
\* removes the registration, or it reports failure and removes nothing.
DeleteOutcomes(reg, name) ==
  {"spawn_error", "failure"} \cup (IF reg[name] # <<>> THEN {"success"} ELSE {})

\* task.rs:182: the result of delete_task after the delete call.
DeleteResult(o) == IF o = "success" THEN "ok" ELSE "err"

\* task.rs:179-189: the forced delete and the result.
DeleteCall ==
  /\ dpc = "delete"
  /\ \E o \in DeleteOutcomes(registry, dname) :
       /\ dstatus' = o
       /\ registry' = IF o = "success" THEN Set(registry, dname, <<>>) ELSE registry
       /\ dres' = DeleteResult(o)
  /\ deleteCalls' = deleteCalls + 1
  /\ dpc' = "done"
  /\ UNCHANGED <<uvars, createLocal, svars, dname, dquery, dreg0, druns>>

DNext ==
  \/ DeleteStart
  \/ DeleteQuery
  \/ DeleteCall


\* --------------------------------------------------- handle_start_command
\* Largest --delay value, in seconds.
MaxDelay == 1

\* start.rs:8-15: StartMode
StartModes == {"direct", "elevated", "task"}

\* --target: a program that exists, one that does not, and a task name.
StartTargets == {"app.exe", "gone.exe", "T1"}

\* --args: none, or one argument.
StartArgs == {<<>>, <<"-s">>}

\* start.rs:73-88: powershell -Command "Start-Process 'target' [-ArgumentList 'args']"
direct_command(target, args) ==
  [program |-> "powershell", start |-> target, argument_list |-> args, run_as |-> FALSE]

\* start.rs:116-134: the same with -Verb RunAs
elevated_command(target, args) ==
  [program |-> "powershell", start |-> target, argument_list |-> args, run_as |-> TRUE]

\* start.rs:153-154: schtasks /Run /TN task_name
task_command(task_name) == [program |-> "schtasks", run |-> task_name]

StartCommand(mode, target, args) ==
  CASE mode = "direct" -> direct_command(target, args)
    [] mode = "elevated" -> elevated_command(target, args)
    [] mode = "task" -> task_command(target)

Registered(reg, name) == name \in TaskNames /\ reg[name] # <<>>

\* What the issued command can do.  Command::output (direct, task): the
\* program cannot be started, or it runs and exits with success or failure;
\* Start-Process succeeds only for a program that exists and `schtasks /Run`
\* only for a registered task.  Command::spawn (elevated): powershell cannot
\* be started, or it was started and is not waited for.
LaunchOutcomes(mode, target, reg) ==
  CASE mode = "direct" ->
         {"spawn_error", "failure"} \cup (IF target = "app.exe" THEN {"success"} ELSE {})
    [] mode = "elevated" -> {"spawn_error", "spawned"}
    [] mode = "task" ->
         {"spawn_error", "failure"} \cup (IF Registered(reg, target) THEN {"success"} ELSE {})

\* start.rs:90-102: `.output()?`, then a failure status is only printed.
start_direct_process(o) == IF o = "spawn_error" THEN "err" ELSE "ok"

\* start.rs:140-143: `.spawn()?`
start_elevated_process(o) == IF o = "spawn_error" THEN "err" ELSE "ok"

\* start.rs:153-167: `.output()?`, then a failure status is returned as Err.
start_task_scheduler(o) == IF o = "success" THEN "ok" ELSE "err"

\* start.rs:46-59: the `?` on each arm, then Ok(()).
StartResult(mode, o) ==
  CASE mode = "direct" -> start_direct_process(o)
    [] mode = "elevated" -> start_elevated_process(o)
    [] mode = "task" -> start_task_scheduler(o)

\* handle_start_command is not running.
StartIdle ==
  /\ spc = "idle"
  /\ smode = "direct"
  /\ starget = "app.exe"
  /\ sargs = <<>>
  /\ sdelay = 0
  /\ ssleeps = 0
  /\ scmd = <<>>
  /\ slaunch = "none"
  /\ sres = "none"

\* `host start --mode m --target t [--args ..] [--delay n]`
StartInit ==
  /\ spc = "delay"
  /\ smode \in StartModes
  /\ starget \in StartTargets
  /\ sargs \in StartArgs
  /\ sdelay \in 0..MaxDelay
  /\ ssleeps = 0
  /\ scmd = <<>>
  /\ slaunch = "none"
  /\ sres = "none"

\* start.rs:39-44
StartDelay ==
  /\ spc = "delay"
  /\ ssleeps' = IF sdelay > 0 THEN ssleeps + 1 ELSE ssleeps
  /\ spc' = "launch"
  /\ UNCHANGED <<uvars, tvars, dvars, smode, starget, sargs, sdelay, scmd, slaunch, sres>>

\* start.rs:46-59
StartLaunch ==
  /\ spc = "launch"
  /\ scmd' = <<StartCommand(smode, starget, sargs)>>
  /\ \E o \in LaunchOutcomes(smode, starget, registry) :
       /\ slaunch' = o
       /\ sres' = StartResult(smode, o)
  /\ spc' = "done"
  /\ UNCHANGED <<uvars, tvars, dvars, smode, starget, sargs, sdelay, ssleeps>>

SNext ==
  \/ StartDelay
  \/ StartLaunch

vars == <<uvars, tvars, ovars>>

UNext ==
  \/ Validate
  \/ StopProcess
  \/ Wait
  \/ UnzipCheck
  \/ PruneEnum
  \/ PruneStep
  \/ OpenArchive
  \/ ExtractEntry
  \/ Relaunch

ENext ==
  \/ UnzipCheck
  \/ PruneEnum
  \/ PruneStep
  \/ OpenArchive
  \/ ExtractEntry
  \/ ExtractAgain

\* One run of `host update`.
SpecInit == UInit /\ TaskIdle(EmptyRegistry) /\ DeleteIdle /\ StartIdle
Spec == SpecInit /\ [][UNext]_vars

\* unzip_file_to_parent_dir called up to MaxRuns times in succession.
ExtractInit == EInit /\ TaskIdle(EmptyRegistry) /\ DeleteIdle /\ StartIdle
ExtractSpec == ExtractInit /\ [][ENext]_vars

\* Up to MaxCalls invocations of `host task --action create`, overlapping
\* or one after the other.
TaskInit == UIdle /\ TInit /\ DeleteIdle /\ StartIdle
TaskSpec == TaskInit /\ [][TNext]_vars

\* Up to MaxDeletes invocations of `host task --action delete`, one after the
\* other.
DeleteInit ==
  /\ UIdle
  /\ \E reg \in DeleteRegistries : TaskIdle(reg)
  /\ DeleteIdle
  /\ StartIdle
DeleteSpec == DeleteInit /\ [][DNext]_vars

\* One run of `host start`.
StartSpecInit ==
  /\ UIdle
  /\ TInit
  /\ DeleteIdle
  /\ StartInit
StartSpec == StartSpecInit /\ [][SNext]_vars


\* ================================================================= claims
\* The installation root of the run, and the path an entry is written to.
Root == GrandParent(archive_path)
Target(e) == Resolve(Join(Root, e.name))

\* The preservation whitelist as the specification states it.
Whitelist == {"log", "portable_config", "tmp"}

\* C1: an update whose archive path does not exist returns an error and does
\* nothing else: no termination request, no sleep, no change to the file
\* system, no prune, no extraction, no relaunch.
C1_MissingArchiveFailsUntouched ==
  (caller = "update" /\ ~Exists(fs0, archive_path) /\ pc # "validate") =>
    /\ pc = "done"
    /\ result = "err"
    /\ err = "validate"
    /\ ~killRequested
    /\ sleepCalls = 0
    /\ fs = fs0
    /\ pruned = {}
    /\ ~extracted
    /\ spawned = 0

C1_Witness ==
  /\ caller = "update"
  /\ ~Exists(fs0, archive_path)
  /\ pc = "done"
  /\ process_name # NoProcess
  /\ wait_time > 0
  /\ should_clean
  /\ auto_start

\* C2: extraction never creates or overwrites anything outside the
\* installation root.
C2_NothingWrittenOutsideRoot ==
  HasGrandParent(archive_path) =>
    \A p \in Paths : ~IsPrefix(Root, p) => fs[p] = fs0[p]

\* C3: the prune step deletes nothing but non-whitelisted children of the
\* installation root (with prune=false, nothing at all), so every child named
\* log, portable_config or tmp keeps its whole contents; and when the prune
\* has gone through the whole directory, exactly the whitelisted children
\* are left.
C3_PruneRemovesExactlyNonWhitelisted ==
  (pc \in {"prune_loop", "open"} \/ (pc = "done" /\ err = "prune")) =>
    /\ \A p \in Paths :
         fs[p] # fs0[p] =>
           /\ should_clean
           /\ fs[p] = NoneNode
           /\ \E c \in Children(fs0, Root) :
                FileName(c) \notin Whitelist /\ IsPrefix(c, p)
    /\ (pc = "open" /\ should_clean /\ ~pruneFaults) =>
         Children(fs, Root) = {c \in Children(fs0, Root) : FileName(c) \in Whitelist}

C3_Witness ==
  /\ pc = "open"
  /\ should_clean
  /\ ~pruneFaults
  /\ Cardinality(pruned) >= 3
  /\ fs[<<"app", "tmp", "pkg.zip">>] = FileNode("zip")
  /\ fs[<<"app", "log", "a.log">>] = FileNode("old")
  /\ fs0[<<"app", "oldstuff", "f">>] = FileNode("old")

\* The scenario update(archive = app/update/pkg.zip, wait = 0, clean, no
\* process, no auto start) with entries bin/app.exe and data/, in a root that
\* holds oldstuff/.
C4_Scenario ==
  /\ caller = "update"
  /\ archive_path = <<"app", "update", "pkg.zip">>
  /\ zip = <<Entry(<<"bin", "app.exe">>, "new"), Entry(<<"data", "">>, "-")>>
  /\ fs0 = InitFs(archive_path, FileNode("zip"), "populated")
  /\ should_clean
  /\ wait_time = 0
  /\ process_name = NoProcess
  /\ ~auto_start

\* C4: the scenario, run without any I/O fault, succeeds and leaves
\* bin/app.exe with the archive's bytes, an empty directory data and no
\* oldstuff.
C4_ScenarioSucceeds ==
  (C4_Scenario /\ faults = 0 /\ pc = "done") =>
    /\ result = "ok"
    /\ fs[<<"app", "bin", "app.exe">>] = FileNode("new")
    /\ fs[<<"app", "data">>] = DirNode
    /\ Children(fs, <<"app", "data">>) = {}
    /\ fs[<<"app", "oldstuff">>] = NoneNode

\* C5: no failure of the stop-process stage (not running, failure status,
\* taskkill not executable) makes the update return an error.
C5_StopFailureNotFatal ==
  (killRequested /\ killOutcome \in {"failed_status", "spawn_error"}) =>
    ~(pc = "done" /\ err = "stop")

\* C6: once extraction has completed, the update returns success whatever
\* the relaunch does.
C6_RelaunchNeverFailsUpdate ==
  (caller = "update" /\ extracted /\ pc = "done") => result = "ok"

\* No entry name steps to a parent directory or leaves the root.
NoTraversal(z) ==
  \A i \in 1..Len(z) :
    /\ \A k \in 1..Len(z[i].name) : z[i].name[k] # ".."
    /\ IsPrefix(Root, Target(z[i]))
    /\ Target(z[i]) # Root

\* No entry is written to the path of the archive itself.
NoSelfEntry(z) == \A i \in 1..Len(z) : Target(z[i]) # archive_path

\* A second fault-free extraction of the same archive has just returned, the
\* first one having succeeded.
SecondRunDone ==
  /\ caller = "extract"
  /\ runs >= 2
  /\ pc = "done"
  /\ ~should_clean
  /\ prevResult = "ok"
  /\ faults = 0
  /\ NoTraversal(zip)

\* C7: for every archive without traversal entries, a second extraction
\* with prune=false succeeds and leaves the file system as the first left it.
C7_ExtractTwiceSameAsOnce ==
  SecondRunDone => (result = "ok" /\ fs = prevFs)

\* C7 restricted to archives in which no entry names the archive file
\* itself: there the second extraction does repeat the first.
C7_ExtractTwiceSameAsOnce_NoSelf ==
  (SecondRunDone /\ NoSelfEntry(zip)) => (result = "ok" /\ fs = prevFs)

C7_Witness ==
  /\ SecondRunDone
  /\ NoSelfEntry(zip)
  /\ result = "ok"
  /\ Len(zip) = 2
  /\ fs[<<"app", "STranslate.exe">>] = FileNode("new")
  /\ fs[<<"app", "data">>] = DirNode
  /\ fs[<<"app", "oldstuff", "f">>] = FileNode("old")

\* C8: when processing entry i fails, extraction stops there: the update
\* returns the error, the loop does not advance, the relaunch is not run, the
\* entries before i stay written, and nothing that only a later entry would
\* create exists.
C8_EntryFailureAborts ==
  (caller = "update" /\ failedAt > 0) =>
    /\ pc = "done"
    /\ result = "err"
    /\ err = "entry"
    /\ idx = failedAt
    /\ ~extracted
    /\ spawned = 0
    /\ \A j \in 1..(failedAt - 1) :
         IF EndsWithSlash(zip[j].name)
           THEN fs[Target(zip[j])] = DirNode
           ELSE /\ fs[Target(zip[j])].kind = "file"
                /\ (\A k \in (j + 1)..failedAt : Target(zip[k]) # Target(zip[j]))
                     => fs[Target(zip[j])] = FileNode(zip[j].data)
    /\ \A p \in Paths :
         (\A j \in 1..failedAt : ~IsPrefix(p, Target(zip[j])))
           => fs[p] \in {fs0[p], NoneNode}

C8_Witness ==
  /\ caller = "update"
  /\ failedAt = 2
  /\ pc = "done"
  /\ auto_start
  /\ zip[1] = Entry(<<"STranslate.exe">>, "new")
  /\ zip[2] = Entry(<<"data", "">>, "-")
  /\ fs[<<"app", "STranslate.exe">>] = FileNode("new")
  /\ fs[<<"app", "data">>] = NoneNode

\* C9: nothing destructive (termination request, prune deletion, write)
\* happens unless the archive path is an existing regular file, and nothing
\* is pruned when the archive path is a directory or no readable archive.
C9_NoDestructionBeforeArchiveChecked ==
  caller = "update" =>
    /\ (killRequested \/ pruned # {} \/ fs # fs0) => fs0[archive_path].kind = "file"
    /\ fs0[archive_path] # FileNode("zip") => pruned = {}


\* C10: whenever a registration named `name` exists and force is
\* false, create_task succeeds without writing a temporary file or issuing a
\* register call, and leaves the registry as it found it.
C10_CreateExistingIsNoOp ==
  \A p \in Procs :
    (/\ tpc[p] = "done"
     /\ solo[p]
     /\ regAtStart[p][targs[p].task_name] # <<>>
     /\ ~targs[p].force) =>
      /\ tres[p] = "ok"
      /\ ~wroteTemp[p]
      /\ registerCalls[p] = 0
      /\ regAtEnd[p] = regAtStart[p]

\* C10 amended: whenever the program exists, the query runs and reports a
\* registration named `name`, and force is false, create_task returns
\* success at once, without writing a temporary file or issuing a register
\* call; run on its own it leaves the registry as it found it.
C10_CreateExistingIsNoOp_Queried ==
  \A p \in Procs :
    (sawExisting[p] /\ ~targs[p].force) =>
      /\ tpc[p] = "done"
      /\ tres[p] = "ok"
      /\ ~wroteTemp[p]
      /\ registerCalls[p] = 0
      /\ solo[p] => regAtEnd[p] = regAtStart[p]

\* The same Create, force=false, has run twice in succession: the second
\* found the registration the first made and left it as it was.
C10_Witness ==
  \E p, q \in Procs :
    /\ p # q
    /\ targs[p] = targs[q]
    /\ ~targs[p].force
    /\ tres[q] = "ok"
    /\ regBy[targs[q].task_name] = q
    /\ tpc[p] = "done"
    /\ sawExisting[p]
    /\ solo[p] /\ solo[q]
    /\ tres[p] = "ok"
    /\ registry[targs[p].task_name] = txml[q]

\* C11: every create_task invocation that wrote its temporary descriptor
\* file has deleted it when it returns, whatever the register call did; the
\* invocation ran with no other invocation in between.
C11_TempFileDeletedOnReturn ==
  \A p \in Procs :
    (tpc[p] = "done" /\ wroteTemp[p] /\ solo[p]) =>
      tmp[temp_xml_path(targs[p].task_name)] = <<>>

\* C12: delete_task, stated by what the registry held when it was called:
\* without a registration named `name` it returns success, issues no delete
\* call and leaves the registry unchanged; with one it issues exactly one
\* forced delete and returns success iff that reports success; other names
\* are never affected.
C12_DeleteByRegistry ==
  dpc = "done" =>
    /\ dreg0[dname] = <<>> =>
         (dres = "ok" /\ deleteCalls = 0 /\ registry = dreg0)
    /\ dreg0[dname] # <<>> =>
         (deleteCalls = 1 /\ (dres = "ok" <=> dstatus = "success"))
    /\ \A n \in TaskNames : n # dname => registry[n] = dreg0[n]

\* C12 amended: delete_task, stated by what its query reported.  The query
\* could not be run: error, no delete call.  The query ran and did not report
\* the registration (as it always does when there is none): success, no
\* delete call, registry unchanged.  The query reported the registration:
\* exactly one forced delete, success iff it reports success, and then the
\* registration is gone; otherwise the registry is unchanged.  Other names
\* are never affected.
C12_DeleteByQuery ==
  /\ dpc \in {"query", "delete"} => (deleteCalls = 0 /\ registry = dreg0 /\ dres = "none")
  /\ dpc = "delete" => dquery = "success"
  /\ dpc = "done" =>
       /\ dquery = "spawn_error" =>
            (dres = "err" /\ deleteCalls = 0 /\ registry = dreg0)
       /\ dquery = "failure" =>
            (dres = "ok" /\ deleteCalls = 0 /\ registry = dreg0)
       /\ dquery = "success" =>
            /\ deleteCalls = 1
            /\ dres = "ok" <=> dstatus = "success"
            /\ IF dstatus = "success"
                 THEN registry = Set(dreg0, dname, <<>>)
                 ELSE registry = dreg0
       /\ dreg0[dname] = <<>> => dquery \in {"spawn_error", "failure"}
       /\ \A n \in TaskNames : n # dname => registry[n] = dreg0[n]

\* A second delete of T1 after the first removed it: a no-op success that
\* leaves the registration of T2 alone.
C12_Witness ==
  /\ dpc = "done"
  /\ druns = 2
  /\ dname = "T1"
  /\ dreg0[dname] = <<>>
  /\ dquery = "failure"
  /\ dres = "ok"
  /\ deleteCalls = 0
  /\ registry["T2"] = <<ForeignTask2>>

\* C13: in mode task every failure to run the registration (failure exit or
\* schtasks not startable) makes handle_start_command return an error; in
\* mode direct no failure to start the target (failure exit or powershell not
\* startable) does.
C13_LauncherFailurePolicy ==
  spc = "done" =>
    /\ (smode = "task" /\ slaunch # "success") => sres = "err"
    /\ (smode = "direct" /\ slaunch # "success") => sres = "ok"

\* C14: create_task with a program path that does not exist returns an error
\* at once, for either value of force: no query, no register call, no
\* descriptor, no temporary file, and the registry as it was at the call.
C14_CreateMissingProgramNoEffect ==
  \A p \in Procs :
    (tpc[p] # "idle" /\ targs[p].program \notin Disk) =>
      /\ tpc[p] = "done"
      /\ tres[p] = "err"
      /\ queryCalls[p] = 0
      /\ registerCalls[p] = 0
      /\ ~wroteTemp[p]
      /\ txml[p] = <<>>
      /\ tstatus[p] = "none"
      /\ regAtEnd[p] = regAtStart[p]

\* A forced create of the registered name T1 with a missing program has
\* returned; the registration is still the one that was there.
C14_Witness ==
  \E p \in Procs :
    /\ tpc[p] = "done"
    /\ targs[p].program = <<"x", "gone.exe">>
    /\ targs[p].task_name = "T1"
    /\ targs[p].force
    /\ tres[p] = "err"
    /\ solo[p]
    /\ registry["T1"] = <<ForeignTask>>

\* C15: an update whose archive path exists but does not have the extension
\* zip never prunes, opens, extracts or relaunches: the file system stays as
\* it was, and the run ends with the InvalidInput error of
\* unzip_file_to_parent_dir (unless the stop stage has already failed).
C15_WrongExtensionRejected ==
  (caller = "update" /\ Exists(fs0, archive_path) /\ Extension(archive_path) # "zip") =>
    /\ pc \in {"validate", "stop", "wait", "unzip", "done"}
    /\ fs = fs0
    /\ pruned = {}
    /\ todo = {}
    /\ openCalls = 0
    /\ idx = 1
    /\ ~extracted
    /\ spawnCalls = 0
    /\ pc = "done" =>
         /\ result = "err"
         /\ err = "invalid_input" \/ (err = "stop" /\ killOutcome = "spawn_error")

\* A clean, auto-start update from app/update/pkg.txt, which holds the bytes
\* of a valid archive, has been rejected in a populated installation.
C15_Witness ==
  /\ caller = "update"
  /\ archive_path = <<"app", "update", "pkg.txt">>
  /\ fs0[archive_path] = FileNode("zip")
  /\ should_clean
  /\ auto_start
  /\ pc = "done"
  /\ err = "invalid_input"
  /\ fs[<<"app", "oldstuff", "f">>] = FileNode("old")
  /\ fs[<<"app", "STranslate.exe">>] = FileNode("old")

\* C16: after a successful extraction with auto-start, a missing
\* STranslate.exe in the installation root means no spawn call, no process
\* and a successful update; an existing one means exactly one spawn call, and
\* the process is started and the update successful unless that call itself
\* fails; the relaunch makes no sleep or wait of its own.  Without auto-start
\* nothing is spawned.
C16_RelaunchOnlyIfExeExists ==
  (caller = "update" /\ extracted /\ pc = "done") =>
    /\ IF ~auto_start
         THEN spawnCalls = 0 /\ spawned = 0 /\ result = "ok"
         ELSE IF Exists(fs, Join(Root, ExeName))
           THEN /\ spawnCalls = 1
                /\ spawned \in {0, 1}
                /\ spawned = 1 <=> result = "ok"
                /\ spawned = 0 => faults > 0
           ELSE spawnCalls = 0 /\ spawned = 0 /\ result = "ok"
    /\ sleepCalls = IF wait_time > 0 THEN 1 ELSE 0

\* The archive installed STranslate.exe into an installation that had none,
\* and the relaunch started it.
C16_Witness ==
  /\ caller = "update"
  /\ extracted
  /\ auto_start
  /\ pc = "done"
  /\ result = "ok"
  /\ fs0[<<"app", "STranslate.exe">>] = NoneNode
  /\ fs[<<"app", "STranslate.exe">>] = FileNode("new")
  /\ spawnCalls = 1
  /\ spawned = 1

\* Auto-start with no executable after the extraction: a successful update
\* without a spawn.
C16_WitnessMissing ==
  /\ caller = "update"
  /\ extracted
  /\ auto_start
  /\ pc = "done"
  /\ result = "ok"
  /\ Len(zip) > 0
  /\ fs[<<"app", "STranslate.exe">>] = NoneNode
  /\ spawnCalls = 0

\* C17: the stages of an update run in the order validate, stop, wait,
\* prune, extract, relaunch.  Until stop and wait are over nothing is pruned,
\* opened, written or spawned; once anything is, the process was asked to
\* stop (if one was named) and the sleep was made (if a wait was asked for);
\* the prune only deletes and is over before the archive is opened; the
\* relaunch comes only after every entry was processed without failure; and
\* with a wait of 0 there is never a sleep.
C17_StagesInOrder ==
  caller = "update" =>
    /\ pc = "validate" => ~killRequested
    /\ pc \in {"validate", "stop"} => sleepCalls = 0
    /\ pc \in {"validate", "stop", "wait", "unzip"} =>
         /\ fs = fs0
         /\ pruned = {}
         /\ openCalls = 0
         /\ idx = 1
         /\ ~extracted
         /\ spawnCalls = 0
    /\ (fs # fs0 \/ pruned # {} \/ openCalls > 0 \/ spawnCalls > 0) =>
         /\ process_name # NoProcess => (killRequested /\ killOutcome # "spawn_error")
         /\ sleepCalls = IF wait_time > 0 THEN 1 ELSE 0
    /\ pc \in {"prune_enum", "prune_loop"} =>
         /\ openCalls = 0
         /\ idx = 1
         /\ \A p \in Paths : fs[p] \in {fs0[p], NoneNode}
    /\ pc = "extract" => (openCalls = 1 /\ todo = {} /\ ~extracted)
    /\ (pc = "relaunch" \/ spawnCalls > 0) =>
         /\ extracted
         /\ openCalls = 1
         /\ idx = Len(zip) + 1
         /\ failedAt = 0
         /\ todo = {}
    /\ wait_time = 0 => sleepCalls = 0
    /\ sleepCalls <= 1

\* A full run with a wait of 0: the process was asked to stop (it was not
\* running), the prune deleted something, both entries were extracted and the
\* relaunch started the program, all without a sleep.
C17_Witness ==
  /\ caller = "update"
  /\ pc = "done"
  /\ result = "ok"
  /\ wait_time = 0
  /\ sleepCalls = 0
  /\ killRequested
  /\ killOutcome = "failed_status"
  /\ should_clean
  /\ pruned # {}
  /\ Len(zip) = 2
  /\ extracted
  /\ spawned = 1

\* C18: the temporary descriptor file of a create_task invocation is its
\* own: when the invocation comes to its register call the file holds the
\* descriptor it wrote (no other invocation has overwritten or deleted it),
\* and every registration an invocation made is the descriptor that
\* invocation generated.
C18_TempFileOwnedByInvocation ==
  /\ \A p \in Procs :
       tpc[p] = "register" => tmp[temp_xml_path(targs[p].task_name)] = txml[p]
  /\ \A n \in TaskNames :
       regBy[n] # 0 => registry[n] = txml[regBy[n]]

\* C19: with prune=true and a valid archive in a staging directory directly
\* under the installation root, the archive is still there, intact, when the
\* prune is over and the extraction is about to open it (no I/O call has
\* failed).
C19_PruneKeepsArchive ==
  (/\ should_clean
   /\ faults = 0
   /\ Len(archive_path) = 3
   /\ Extension(archive_path) = "zip"
   /\ fs0[archive_path] = FileNode("zip")
   /\ pc = "open") =>
    ArchiveIntact(fs, archive_path)

\* C20: in the prune of an update, a failed enumeration (read_dir fails, or
\* an entry cannot be read) is ignored: the run goes on to open the archive.
\* A failed removal of a non-whitelisted child ends the run with that error:
\* the children removed before stay removed, the children not yet visited
\* are untouched, the failing child is still there, nothing was written, the
\* archive was not opened, no entry extracted, nothing spawned.  So the
\* archive is opened only when every child the enumeration gave and the
\* whitelist does not protect has been removed.
C20_PruneFailures ==
  caller = "update" =>
    /\ (pruneFaults /\ pc = "done" /\ err # "prune") => openCalls = 1
    /\ (pruneFaults /\ pc \notin {"prune_enum", "prune_loop"} /\ err # "prune") =>
         pc \in {"open", "extract", "relaunch", "done"}
    /\ err = "prune" =>
         /\ pc = "done"
         /\ result = "err"
         /\ openCalls = 0
         /\ idx = 1
         /\ failedAt = 0
         /\ ~extracted
         /\ spawnCalls = 0
         /\ \A c \in pruned : \A p \in Paths : IsPrefix(c, p) => fs[p] = NoneNode
         /\ \A c \in todo : \A p \in Paths : IsPrefix(c, p) => fs[p] = fs0[p]
         /\ \A p \in Paths : fs[p] \in {fs0[p], NoneNode}
         /\ \E c \in Children(fs, Root) :
              FileName(c) \notin Whitelist /\ c \notin todo /\ fs[c] = fs0[c]
    /\ (should_clean /\ ~pruneFaults /\ (pc = "open" \/ openCalls > 0)) =>
         \A c \in Children(fs0, Root) :
           FileName(c) \notin Whitelist => c \in pruned

\* The removal of a child failed after another child had been removed and
\* while a third was still to be visited.
C20_Witness ==
  /\ caller = "update"
  /\ err = "prune"
  /\ pc = "done"
  /\ auto_start
  /\ pruned # {}
  /\ \E c \in todo : FileName(c) \notin Whitelist
  /\ fs0[archive_path] = FileNode("zip")

\* read_dir failed, nothing was pruned, and the update went on to extract
\* the archive and succeeded.
C20_WitnessEnumeration ==
  /\ caller = "update"
  /\ should_clean
  /\ pruneFaults
  /\ pruned = {}
  /\ pc = "done"
  /\ result = "ok"
  /\ extracted
  /\ Len(zip) > 0
  /\ fs[<<"app", "oldstuff", "f">>] = FileNode("old")

====
